---- MODULE Spec2Model ----
(***************************************************************************)
(* The wallet core of broken-wallet as state machines over one set of      *)
(* variables, one specification per entry point:                           *)
(*                                                                         *)
(*   Spec            one call of buildSignedTransaction                    *)
(*                   (src/src/transactionBuilder.ts): input checks, output *)
(*                   classification, fee and change computation, output    *)
(*                   assembly, one step per UTXO to resolve its path and   *)
(*                   add it as a PSBT input, one step per input to sign    *)
(*                   it, finalization;                                     *)
(*   DerivationSpec  one call of deriveWalletFromMnemonic                  *)
(*                   (src/src/bitcoin.ts);                                 *)
(*   SimpleModeSpec  one call of deriveWalletFromMnemonic followed by      *)
(*                   findFirstCleanReceiveAddress                          *)
(*                   (src/src/simpleMode.ts) for the derived addresses and *)
(*                   a history;                                            *)
(*   DiscoverySpec   one call of deriveWalletWithDiscovery                 *)
(*                   (src/src/addressDiscovery.ts), one step per loop      *)
(*                   iteration, followed by isOwnAddress for the addresses *)
(*                   of the history.                                       *)
(*                                                                         *)
(* The variables of the entry points a specification does not call keep    *)
(* their idle values.                                                      *)
(*                                                                         *)
(* Amounts are integers in satoshi.  A fee rate is a rational <<num, den>> *)
(* (sat/vB).  An address given to the builder is a record of what its      *)
(* decoding yields: the encoding, the bech32 prefix, the version and the   *)
(* payload length, plus `hash`, the name of the key whose hash160 it       *)
(* carries.  A derived address is the record of its format, chain role and *)
(* index; a list of derived addresses is kept as the lengths of its        *)
(* receive and change parts.                                               *)
(***************************************************************************)
EXTENDS Integers, Sequences, FiniteSets, TLC

\* ------------------------------------------------------------------ bounds
MaxUtxos == 2
MaxOutputs == 2

\* ------------------------------------------------------- program constants
BaseOverhead == 10
P2wpkhInputWeight == 68
P2pkhInputWeight == 148
P2wpkhOutputWeight == 31
P2pkhOutputWeight == 34
\* bitcoin.networks.bitcoin.pubKeyHash
PubKeyHash == 0

\* ---------------------------------------------------------------- addresses
Address(enc, hrp, version, len, hash) ==
    [enc |-> enc, hrp |-> hrp, version |-> version, len |-> len, hash |-> hash]

\* changeAddress null or '', utxo.address undefined
NoAddress == Address("absent", "", 0, 0, "")
\* 'invalid_address': neither bech32 nor base58check decodes
InvalidAddress == Address("invalid", "", 0, 0, "")
\* bc1q... of the wallet, receive 0 and 1 and change 0 of the segwit account
SegwitReceive0 == Address("bech32", "bc", 0, 20, "k84_0_0")
SegwitReceive1 == Address("bech32", "bc", 0, 20, "k84_0_1")
SegwitChange0 == Address("bech32", "bc", 0, 20, "k84_1_0")
\* 1... of the wallet, receive 0 of the legacy account
LegacyReceive0 == Address("base58", "", 0, 20, "k44_0_0")
\* tb1q...: a version-0, 20-byte bech32 address of another network
TestnetSegwit == Address("bech32", "tb", 0, 20, "other")

NoPath == ""
\* deriveChildFromPath: the key a derivation path leads to
KeyOfPath(path) ==
    CASE path = "m/84'/0'/0'/0/0" -> "k84_0_0"
      [] path = "m/84'/0'/0'/0/1" -> "k84_0_1"
      [] path = "m/84'/0'/0'/1/0" -> "k84_1_0"
      [] path = "m/44'/0'/0'/0/0" -> "k44_0_0"
      [] OTHER -> "none"

\* addressMap: the wallet's derived addresses, address -> DerivedAddress.path
AddressMapPath(address) ==
    CASE address = SegwitReceive0 -> "m/84'/0'/0'/0/0"
      [] address = SegwitReceive1 -> "m/84'/0'/0'/0/1"
      [] address = SegwitChange0 -> "m/84'/0'/0'/1/0"
      [] address = LegacyReceive0 -> "m/44'/0'/0'/0/0"
      [] OTHER -> NoPath

\* ------------------------------------------------------------- input domains
Utxo(value, address, path, hex) ==
    [value |-> value, address |-> address, path |-> path, hex |-> hex]

UtxoChoices ==
    { Utxo(1000, SegwitReceive0, "m/84'/0'/0'/0/0", FALSE),
      Utxo(109, SegwitReceive0, "m/84'/0'/0'/0/0", FALSE),
      Utxo(1000, SegwitReceive0, NoPath, FALSE),
      Utxo(1000, SegwitReceive0, "m/84'/0'/0'/0/1", FALSE),
      Utxo(1000, LegacyReceive0, "m/44'/0'/0'/0/0", TRUE),
      Utxo(1000, LegacyReceive0, "m/44'/0'/0'/0/0", FALSE),
      Utxo(1000, InvalidAddress, "m/84'/0'/0'/0/0", FALSE),
      Utxo(1000, InvalidAddress, NoPath, FALSE) }

TxOutputRequest(address, amountSats) ==
    [address |-> address, amountSats |-> amountSats]

OutputChoices ==
    { TxOutputRequest(SegwitReceive1, 860),
      TxOutputRequest(LegacyReceive0, 50),
      TxOutputRequest(InvalidAddress, 50),
      TxOutputRequest(TestnetSegwit, 50) }

ChangeChoices ==
    { NoAddress, SegwitChange0, LegacyReceive0, InvalidAddress, TestnetSegwit }

\* sat/vB as <<numerator, denominator>>; the builder view keeps the rate >= 1
FeeRates == { <<1, 1>>, <<3, 2>> }

\* DER signature plus sighash byte, low-S: r takes 32 or 33 bytes
SignatureLengths == { 71, 72 }

SeqsUpTo(S, n) == UNION { [1..m -> S] : m \in 0..n }

\* ------------------------------------------------------------ pure functions
RECURSIVE SumValues(_)
SumValues(us) ==
    IF us = <<>> THEN 0 ELSE us[1].value + SumValues(Tail(us))

RECURSIVE SumAmounts(_)
SumAmounts(os) ==
    IF os = <<>> THEN 0 ELSE os[1].amountSats + SumAmounts(Tail(os))

\* Math.ceil(n / d) for d > 0
Ceil(n, d) == IF n % d = 0 THEN n \div d ELSE (n \div d) + 1

detectAddressType(address) ==
    IF address.enc = "bech32" /\ address.version = 0 /\ address.len = 20
    THEN "p2wpkh"
    ELSE IF address.enc = "base58" /\ address.version = PubKeyHash
         THEN "p2pkh"
         ELSE "null"

estimateOutputWeight(type) ==
    IF type = "p2wpkh" THEN P2wpkhOutputWeight ELSE P2pkhOutputWeight

\* the two weights swapped
estimateInputWeightSwapped(type) ==
    IF type = "p2wpkh" THEN P2pkhInputWeight ELSE P2wpkhInputWeight

estimateInputWeight(type) ==
    IF type = "p2wpkh" THEN P2wpkhInputWeight ELSE P2pkhInputWeight

RECURSIVE InputWeights(_)
InputWeights(us) ==
    IF us = <<>> THEN 0
    ELSE LET t == detectAddressType(us[1].address)
         IN  estimateInputWeight(IF t = "null" THEN "p2wpkh" ELSE t)
               + InputWeights(Tail(us))

RECURSIVE OutputWeights(_)
OutputWeights(types) ==
    IF types = <<>> THEN 0
    ELSE estimateOutputWeight(types[1]) + OutputWeights(Tail(types))

\* the change output is left out of the estimate
estimatedVsizeWithoutChange(us, types, changeType) ==
    BaseOverhead + InputWeights(us) + OutputWeights(types)

estimatedVsize(us, types, changeType) ==
    BaseOverhead + InputWeights(us) + OutputWeights(types)
      + estimateOutputWeight(changeType)

feeEstimate(us, types, changeType, rate) ==
    Ceil(estimatedVsize(us, types, changeType) * rate[1], rate[2])

\* toOutputScript / payments.p2wpkh of bitcoinjs-lib with network bitcoin:
\* a bech32 address must carry the network's prefix
HasNetworkPrefix(address) ==
    address.enc = "bech32" => address.hrp = "bc"

\* the two checks in the other order
InputCheckErrorOutputsFirst(us, os, change) ==
    IF Len(os) = 0 /\ change = NoAddress THEN "NoOutputsOrChange"
    ELSE IF Len(us) = 0 THEN "NoInputsSelected"
    ELSE "none"

\* lines 142-148: the error thrown, "none" when both checks pass
InputCheckError(us, os, change) ==
    IF Len(us) = 0 THEN "NoInputsSelected"
    ELSE IF Len(os) = 0 /\ change = NoAddress THEN "NoOutputsOrChange"
    ELSE "none"

\* a change output is appended when the change value is >= 0, not only > 0
ComputeChangeZeroAppended(us, os, types, change, rate) ==
    IF change = NoAddress \/ detectAddressType(change) = "null"
    THEN [err |-> IF change = NoAddress THEN "none"
                  ELSE "UnsupportedOutputAddress",
          changeValue |-> 0, prospectiveOutputs |-> os]
    ELSE LET fee == feeEstimate(us, types, detectAddressType(change), rate)
             value == SumValues(us) - SumAmounts(os) - fee
         IN  IF value < 0
             THEN [err |-> "InsufficientFunds", changeValue |-> value,
                   prospectiveOutputs |-> os]
             ELSE [err |-> "none", changeValue |-> value,
                   prospectiveOutputs |->
                       Append(os, TxOutputRequest(change, value))]

\* the empty-outputs check placed before the change output is appended
ComputeChangeSweepRejected(us, os, types, change, rate) ==
    IF change = NoAddress \/ detectAddressType(change) = "null"
    THEN [err |-> IF change = NoAddress THEN "none"
                  ELSE "UnsupportedOutputAddress",
          changeValue |-> 0, prospectiveOutputs |-> os]
    ELSE LET fee == feeEstimate(us, types, detectAddressType(change), rate)
             value == SumValues(us) - SumAmounts(os) - fee
         IN  IF value < 0
             THEN [err |-> "InsufficientFunds", changeValue |-> value,
                   prospectiveOutputs |-> os]
             ELSE IF Len(os) = 0
             THEN [err |-> "NoValueRemaining", changeValue |-> value,
                   prospectiveOutputs |-> os]
             ELSE IF value > 0
             THEN [err |-> "none", changeValue |-> value,
                   prospectiveOutputs |->
                       Append(os, TxOutputRequest(change, value))]
             ELSE [err |-> "none", changeValue |-> value,
                   prospectiveOutputs |-> os]

\* the shortfall check left out: a negative change value is treated as none
ComputeChangeUnchecked(us, os, types, change, rate) ==
    IF change = NoAddress \/ detectAddressType(change) = "null"
    THEN [err |-> IF change = NoAddress THEN "none"
                  ELSE "UnsupportedOutputAddress",
          changeValue |-> 0, prospectiveOutputs |-> os]
    ELSE LET fee == feeEstimate(us, types, detectAddressType(change), rate)
             value == SumValues(us) - SumAmounts(os) - fee
         IN  IF value > 0
             THEN [err |-> "none", changeValue |-> value,
                   prospectiveOutputs |->
                       Append(os, TxOutputRequest(change, value))]
             ELSE IF Len(os) = 0
             THEN [err |-> "NoValueRemaining", changeValue |-> value,
                   prospectiveOutputs |-> os]
             ELSE [err |-> "none", changeValue |-> value,
                   prospectiveOutputs |-> os]

\* lines 163-192: the error thrown ("none" when the block completes), the
\* change value and the outputs planned
ComputeChange(us, os, types, change, rate) ==
    IF change = NoAddress
    THEN [err |-> "none", changeValue |-> 0, prospectiveOutputs |-> os]
    ELSE LET changeType == detectAddressType(change)
             fee == feeEstimate(us, types, changeType, rate)
             value == SumValues(us) - SumAmounts(os) - fee
         IN  IF changeType = "null"
             THEN [err |-> "UnsupportedOutputAddress", changeValue |-> 0,
                   prospectiveOutputs |-> os]
             ELSE IF value < 0
             THEN [err |-> "InsufficientFunds", changeValue |-> value,
                   prospectiveOutputs |-> os]
             ELSE IF value > 0
             THEN [err |-> "none", changeValue |-> value,
                   prospectiveOutputs |->
                       Append(os, TxOutputRequest(change, value))]
             ELSE IF Len(os) = 0
             THEN [err |-> "NoValueRemaining", changeValue |-> value,
                   prospectiveOutputs |-> os]
             ELSE [err |-> "none", changeValue |-> value,
                   prospectiveOutputs |-> os]

\* lines 194-205: the error thrown while the planned outputs are checked and
\* added to the PSBT, "none" when all are added
AssembleError(us, planned) ==
    IF Len(planned) = 0 THEN "NoOutputsOrChange"
    ELSE IF SumAmounts(planned) > SumValues(us) THEN "OutputsExceedInputs"
    ELSE IF \E i \in 1..Len(planned) : ~HasNetworkPrefix(planned[i].address)
         THEN "InvalidAddressPrefix"
         ELSE "none"

\* line 210: utxo.path || addressMap.get(utxo.address ?? '')?.path
ResolveDerivation(utxo) ==
    IF utxo.path # NoPath THEN utxo.path ELSE AddressMapPath(utxo.address)

\* lines 96-120 with the payment's own validation: the error thrown, "none"
\* when a payment is returned
buildPayments(address, pubkey) ==
    LET type == detectAddressType(address)
    IN  IF type = "null" THEN "UnsupportedInputAddress"
        ELSE IF type # "p2wpkh" THEN "UnsupportedInputType"
        ELSE IF ~HasNetworkPrefix(address) THEN "InvalidAddressPrefix"
        ELSE IF address.hash # pubkey THEN "HashMismatch"
        ELSE "none"

\* lines 210-220: the error thrown for one UTXO before psbt.addInput
AddInputError(utxo) ==
    LET derivation == ResolveDerivation(utxo)
    IN  IF derivation = NoPath THEN "MissingDerivationPath"
        ELSE IF KeyOfPath(derivation) = "none" THEN "DerivationError"
        ELSE buildPayments(utxo.address, KeyOfPath(derivation))

\* lines 222-236: the PSBT input of a UTXO
PsbtInput(utxo) ==
    [value |-> utxo.value,
     type |-> detectAddressType(utxo.address),
     path |-> ResolveDerivation(utxo),
     pubkey |-> KeyOfPath(ResolveDerivation(utxo))]

RECURSIVE SumSeq(_)
SumSeq(ns) == IF ns = <<>> THEN 0 ELSE ns[1] + SumSeq(Tail(ns))

RECURSIVE OutputBytes(_)
OutputBytes(os) ==
    IF os = <<>> THEN 0
    ELSE 8 + 1 + (IF detectAddressType(os[1].address) = "p2wpkh" THEN 22 ELSE 25)
           + OutputBytes(Tail(os))

\* line 250, tx.virtualSize() of a transaction whose inputs all spend p2wpkh:
\* version, input count, 41 bytes per input, output count, outputs, locktime;
\* witness: marker and flag, then per input the item count, the signature
\* and the 33-byte public key, each with its length byte
virtualSize(sigs, os) ==
    LET base == 4 + 1 + 41 * Len(sigs) + 1 + OutputBytes(os) + 4
        witness == 2 + SumSeq(sigs) + 36 * Len(sigs)
    IN  Ceil(4 * base + witness, 4)

NoResult ==
    [feeSats |-> 0, vsize |-> 0, totalInput |-> 0, totalOutput |-> 0,
     changeOutput |-> <<>>, outputs |-> <<>>, inputs |-> <<>>,
     effectiveFeeRate |-> <<0, 1>>]

\* the changeOutput field is set whatever the change value is
BuildResultChangeOutputAlways(us, planned, value, change, inputs, sigs) ==
    LET totalOutput == SumAmounts(planned)
        fee == SumValues(us) - totalOutput
        vsize == virtualSize(sigs, planned)
    IN  [feeSats |-> fee, vsize |-> vsize,
         totalInput |-> SumValues(us), totalOutput |-> totalOutput,
         changeOutput |-> <<TxOutputRequest(change, value)>>,
         outputs |-> planned,
         inputs |-> [i \in 1..Len(inputs) |->
                        [utxo |-> i, path |-> inputs[i].path,
                         signature |-> sigs[i]]],
         effectiveFeeRate |-> <<fee, vsize>>]

\* the result lists the requested outputs, not the planned ones
BuildResultRequestedOutputs(us, planned, value, change, inputs, sigs) ==
    LET totalOutput == SumAmounts(planned)
        fee == SumValues(us) - totalOutput
        vsize == virtualSize(sigs, planned)
    IN  [feeSats |-> fee, vsize |-> vsize,
         totalInput |-> SumValues(us), totalOutput |-> totalOutput,
         changeOutput |->
             IF value > 0 THEN <<TxOutputRequest(change, value)>> ELSE <<>>,
         outputs |-> IF value > 0 THEN SubSeq(planned, 1, Len(planned) - 1)
                     ELSE planned,
         inputs |-> [i \in 1..Len(inputs) |->
                        [utxo |-> i, path |-> inputs[i].path,
                         signature |-> sigs[i]]],
         effectiveFeeRate |-> <<fee, vsize>>]

\* totalOutput summed over the requested outputs only, the change left out
BuildResultRequestedTotal(us, planned, value, change, inputs, sigs) ==
    LET totalOutput == SumAmounts(planned) - (IF value > 0 THEN value ELSE 0)
        fee == SumValues(us) - totalOutput
        vsize == virtualSize(sigs, planned)
    IN  [feeSats |-> fee, vsize |-> vsize,
         totalInput |-> SumValues(us), totalOutput |-> totalOutput,
         changeOutput |->
             IF value > 0 THEN <<TxOutputRequest(change, value)>> ELSE <<>>,
         outputs |-> planned,
         inputs |-> [i \in 1..Len(inputs) |->
                        [utxo |-> i, path |-> inputs[i].path,
                         signature |-> sigs[i]]],
         effectiveFeeRate |-> <<fee, vsize>>]

\* only the first input is reported as signed
BuildResultFirstInputOnly(us, planned, value, change, inputs, sigs) ==
    LET totalOutput == SumAmounts(planned)
        fee == SumValues(us) - totalOutput
        vsize == virtualSize(sigs, planned)
    IN  [feeSats |-> fee, vsize |-> vsize,
         totalInput |-> SumValues(us), totalOutput |-> totalOutput,
         changeOutput |->
             IF value > 0 THEN <<TxOutputRequest(change, value)>> ELSE <<>>,
         outputs |-> planned,
         inputs |-> [i \in 1..1 |->
                        [utxo |-> i, path |-> inputs[i].path,
                         signature |-> sigs[i]]],
         effectiveFeeRate |-> <<fee, vsize>>]

\* lines 248-262; effectiveFeeRate is the fraction <<feeSats, vsize>>
BuildResult(us, planned, value, change, inputs, sigs) ==
    LET totalOutput == SumAmounts(planned)
        fee == SumValues(us) - totalOutput
        vsize == virtualSize(sigs, planned)
    IN  [feeSats |-> fee, vsize |-> vsize,
         totalInput |-> SumValues(us), totalOutput |-> totalOutput,
         changeOutput |->
             IF value > 0 THEN <<TxOutputRequest(change, value)>> ELSE <<>>,
         outputs |-> planned,
         inputs |-> [i \in 1..Len(inputs) |->
                        [utxo |-> i, path |-> inputs[i].path,
                         signature |-> sigs[i]]],
         effectiveFeeRate |-> <<fee, vsize>>]

\* ------------------------------------------------ wallet derivation bounds
MaxCount == 6
MaxTransactions == 3

\* ------------------------------------- wallet derivation (src/src/bitcoin.ts)
DefaultCount == 5
MinChangeCount == 2

\* NETWORKS; an absent bech32Prefix is "", an absent zpubPrefix FALSE
NETWORKS ==
    [btc  |-> [bech32Prefix |-> "bc", p2pkhVersion |-> 0, coinType |-> 0,
               zpubPrefix |-> TRUE],
     ltc  |-> [bech32Prefix |-> "ltc", p2pkhVersion |-> 48, coinType |-> 2,
               zpubPrefix |-> TRUE],
     doge |-> [bech32Prefix |-> "", p2pkhVersion |-> 30, coinType |-> 3,
               zpubPrefix |-> FALSE],
     dash |-> [bech32Prefix |-> "", p2pkhVersion |-> 76, coinType |-> 5,
               zpubPrefix |-> FALSE]]

\* the symbols a caller passes: the four networks and one without an entry
NetworkSymbols == {"btc", "ltc", "doge", "dash", "xrp"}

TestMnemonic ==
    "abandon abandon abandon abandon abandon abandon abandon abandon abandon abandon abandon about"

InvalidMnemonic ==
    "invalid mnemonic with random words that are not in bip39 wordlist"

Mnemonics == {TestMnemonic, InvalidMnemonic}

validateMnemonic(mnemonic) == mnemonic = TestMnemonic

Max(a, b) == IF a >= b THEN a ELSE b

Min(a, b) == IF a <= b THEN a ELSE b

\* the address the mnemonic has at format / chain / index on the network of
\* the call; "other" is the format of an address the mnemonic does not have
DerivedAddress(format, type, index) ==
    [format |-> format, type |-> type, index |-> index]

\* a list of derived addresses, receive indices 0..receive-1 followed by
\* change indices 0..change-1 (Array.from({ length }, (_, index) => ...)),
\* kept as its two lengths
AddressList(receive, change) == [receive |-> receive, change |-> change]

\* the list written out
Addresses(format, list) ==
    [i \in 1..(list.receive + list.change) |->
        IF i <= list.receive
        THEN DerivedAddress(format, "receive", i - 1)
        ELSE DerivedAddress(format, "change", i - list.receive - 1)]

\* options given as a number
NumberOption(count) ==
    [kind |-> "number", count |-> count,
     receiveCount |-> <<>>, changeCount |-> <<>>]

\* options given as an object; a count is <<>> when undefined, <<n>> else
AddressGenerationOptions(receiveCount, changeCount) ==
    [kind |-> "object", count |-> 0,
     receiveCount |-> receiveCount, changeCount |-> changeCount]

OptionalCounts == {<<>>} \cup {<<n>> : n \in 0..MaxCount}

OptionChoices ==
    {NumberOption(n) : n \in 0..MaxCount}
        \cup {AddressGenerationOptions(r, c) :
                 r \in OptionalCounts, c \in OptionalCounts}

WalletDerivation(error, zpub, segwit, xpub, legacy) ==
    [err |-> error,
     segwitAccount |-> [zpub |-> zpub, addresses |-> segwit],
     legacyAccount |-> [xpub |-> xpub, addresses |-> legacy]]

\* a throw of deriveWalletFromMnemonic: no wallet
WalletError(kind) ==
    WalletDerivation(kind, "", AddressList(0, 0), "", AddressList(0, 0))

NoWallet == WalletError("none")

\* the change count of a number option is half the count, without the
\* minimum of two
deriveWalletFromMnemonicHalfChange(mnemonic, options, networkSymbol) ==
    IF ~validateMnemonic(mnemonic) THEN WalletError("InvalidMnemonic")
    ELSE IF networkSymbol \notin DOMAIN NETWORKS
    THEN WalletError("UnsupportedNetwork")
    ELSE
    LET network == NETWORKS[networkSymbol]
        receiveCount ==
            IF options.kind = "number" THEN options.count
            ELSE IF options.receiveCount = <<>> THEN DefaultCount
            ELSE options.receiveCount[1]
        changeCount ==
            IF options.kind = "number" THEN options.count \div 2
            ELSE IF options.changeCount = <<>>
            THEN Max(MinChangeCount, receiveCount \div 2)
            ELSE options.changeCount[1]
        list == AddressList(receiveCount, changeCount)
    IN  IF network.bech32Prefix # "" /\ network.zpubPrefix
        THEN WalletDerivation("none", "zpub", list, "xpub", list)
        ELSE WalletDerivation("none", "", AddressList(0, 0), "xpub", list)

\* the segwit account is derived on every network
deriveWalletFromMnemonicAlwaysSegwit(mnemonic, options, networkSymbol) ==
    IF ~validateMnemonic(mnemonic) THEN WalletError("InvalidMnemonic")
    ELSE IF networkSymbol \notin DOMAIN NETWORKS
    THEN WalletError("UnsupportedNetwork")
    ELSE
    LET receiveCount ==
            IF options.kind = "number" THEN options.count
            ELSE IF options.receiveCount = <<>> THEN DefaultCount
            ELSE options.receiveCount[1]
        changeCount ==
            IF options.kind = "number"
            THEN Max(MinChangeCount, options.count \div 2)
            ELSE IF options.changeCount = <<>>
            THEN Max(MinChangeCount, receiveCount \div 2)
            ELSE options.changeCount[1]
        list == AddressList(receiveCount, changeCount)
    IN  WalletDerivation("none", "zpub", list, "xpub", list)

\* bitcoin.ts lines 152-229; err is "none" when a wallet is returned
deriveWalletFromMnemonic(mnemonic, options, networkSymbol) ==
    IF ~validateMnemonic(mnemonic) THEN WalletError("InvalidMnemonic")
    ELSE IF networkSymbol \notin DOMAIN NETWORKS
    THEN WalletError("UnsupportedNetwork")
    ELSE
    LET network == NETWORKS[networkSymbol]
        receiveCount ==
            IF options.kind = "number" THEN options.count
            ELSE IF options.receiveCount = <<>> THEN DefaultCount
            ELSE options.receiveCount[1]
        changeCount ==
            IF options.kind = "number"
            THEN Max(MinChangeCount, options.count \div 2)
            ELSE IF options.changeCount = <<>>
            THEN Max(MinChangeCount, receiveCount \div 2)
            ELSE options.changeCount[1]
        list == AddressList(receiveCount, changeCount)
    IN  IF network.bech32Prefix # "" /\ network.zpubPrefix
        THEN WalletDerivation("none", "zpub", list, "xpub", list)
        ELSE WalletDerivation("none", "", AddressList(0, 0), "xpub", list)

\* ------------------------- address discovery (src/src/addressDiscovery.ts)
InitialBatch == 100
MaxIterations == 10
MaxAddressCap == 10000
\* App.tsx, the gap limit the wallet view passes
GAP_LIMIT == 20

Chains == {"segwitReceive", "segwitChange", "legacyReceive", "legacyChange"}

\* an address that is not one of the mnemonic's
OtherAddress == DerivedAddress("other", "receive", 0)

\* an input or an output of a transaction: its addresses, and the indexer's
\* isOwn as "true", "false" or "undefined"
TxEntry(addresses, isOwn) == [addresses |-> addresses, isOwn |-> isOwn]

BlockbookTransaction(txid, vin, vout) ==
    [txid |-> txid, vin |-> vin, vout |-> vout]

\* the transactions a history is made of
TxPool ==
    { BlockbookTransaction("t37",
          <<TxEntry(<<OtherAddress>>, "false")>>,
          <<TxEntry(<<DerivedAddress("p2wpkh", "receive", 37)>>, "true")>>),
      BlockbookTransaction("t10",
          <<TxEntry(<<OtherAddress>>, "undefined")>>,
          <<TxEntry(<<DerivedAddress("p2wpkh", "change", 10)>>, "false")>>),
      BlockbookTransaction("t160",
          <<TxEntry(<<>>, "undefined")>>,
          <<TxEntry(<<DerivedAddress("p2wpkh", "receive", 160)>>,
                    "undefined")>>),
      BlockbookTransaction("t400",
          <<TxEntry(<<OtherAddress>>, "true")>>,
          <<TxEntry(<<DerivedAddress("p2wpkh", "receive", 400)>>, "true")>>),
      BlockbookTransaction("t6000",
          <<TxEntry(<<OtherAddress>>, "undefined")>>,
          <<TxEntry(<<DerivedAddress("p2pkh", "receive", 6000)>>,
                    "undefined")>>),
      BlockbookTransaction("t3",
          <<TxEntry(<<DerivedAddress("p2pkh", "change", 3)>>, "true")>>,
          <<TxEntry(<<DerivedAddress("p2pkh", "receive", 0)>>, "undefined"),
            TxEntry(<<OtherAddress>>, "undefined")>>) }

Histories == {h \in SUBSET TxPool : Cardinality(h) <= MaxTransactions}

GapLimits == {GAP_LIMIT, 150, 5000, 12000}

MinAddressChoices == {DefaultCount, 30, 150, 12000}

Range(seq) == {seq[i] : i \in 1..Len(seq)}

SetMax(set) == CHOOSE x \in set : \A y \in set : y <= x

\* [...segwit addresses, ...legacy addresses], as a list or as the keys of
\* a map from address to DerivedAddress
AllAddresses(segwit, legacy) == [p2wpkh |-> segwit, p2pkh |-> legacy]

\* addressMap.get(address) is defined, addressMap.has(address)
HasAddress(addresses, address) ==
    /\ address.format \in DOMAIN addresses
    /\ address.index < addresses[address.format][address.type]

\* an address the indexer flags as the wallet's own counts as known
findMaxUsedIndicesTrustingIsOwn(txs, currentAddresses) ==
    LET entries == UNION {Range(tx.vin) \cup Range(tx.vout) : tx \in txs}
        knownAddr ==
            UNION {{a \in Range(e.addresses) :
                      HasAddress(currentAddresses, a) \/ e.isOwn = "true"} :
                   e \in entries}
        maxIndex(format, type) ==
            SetMax({-1} \cup {a.index : a \in
                       {k \in knownAddr : k.format = format /\ k.type = type}})
    IN  [segwitReceive |-> maxIndex("p2wpkh", "receive"),
         segwitChange  |-> maxIndex("p2wpkh", "change"),
         legacyReceive |-> maxIndex("p2pkh", "receive"),
         legacyChange  |-> maxIndex("p2pkh", "change")]

\* lines 15-80
findMaxUsedIndices(txs, currentAddresses) ==
    LET entries == UNION {Range(tx.vin) \cup Range(tx.vout) : tx \in txs}
        touched == UNION {Range(e.addresses) : e \in entries}
        knownAddr == {a \in touched : HasAddress(currentAddresses, a)}
        maxIndex(format, type) ==
            SetMax({-1} \cup {a.index : a \in
                       {k \in knownAddr : k.format = format /\ k.type = type}})
    IN  [segwitReceive |-> maxIndex("p2wpkh", "receive"),
         segwitChange  |-> maxIndex("p2wpkh", "change"),
         legacyReceive |-> maxIndex("p2pkh", "receive"),
         legacyChange  |-> maxIndex("p2pkh", "change")]

\* the gap is left out of the required counts
requiredCountsWithoutGap(maxIndices, gap) ==
    [c \in Chains |-> maxIndices[c] + 1]

\* lines 124-129
requiredCounts(maxIndices, gap) ==
    [c \in Chains |-> maxIndices[c] + gap + 1]

\* lines 131-137
maxRequired(required, minimum) ==
    Max(SetMax({required[c] : c \in Chains}), minimum)

\* lines 110-137: the loop body up to the comparison, at one batch size
Scan(words, txs, gap, minimum, symbol, count) ==
    LET derived == deriveWalletFromMnemonic(words,
                       AddressGenerationOptions(<<count>>, <<count>>), symbol)
        maxIndices == findMaxUsedIndices(txs,
                          AllAddresses(derived.segwitAccount.addresses,
                                       derived.legacyAccount.addresses))
        required == requiredCounts(maxIndices, gap)
    IN  [err |-> derived.err, maxIndices |-> maxIndices,
         requiredCounts |-> required,
         maxRequired |-> maxRequired(required, minimum)]

\* the object deriveWalletWithDiscovery returns
DiscoveryResult(segwitAddresses, legacyAddresses) ==
    [segwitAddresses |-> segwitAddresses, legacyAddresses |-> legacyAddresses]

NoDiscovery == DiscoveryResult(AddressList(0, 0), AddressList(0, 0))

\* every chain gets the largest of the required counts
ConvergedResultUniform(words, required, minimum, symbol) ==
    LET uniform == maxRequired(required, minimum)
        derived == deriveWalletFromMnemonic(words,
            AddressGenerationOptions(<<uniform>>, <<uniform>>), symbol)
    IN  DiscoveryResult(derived.segwitAccount.addresses,
                        derived.legacyAccount.addresses)

\* lines 141-155
ConvergedResult(words, required, minimum, symbol) ==
    LET segwitWallet == deriveWalletFromMnemonic(words,
            AddressGenerationOptions(
                <<Max(minimum, required.segwitReceive)>>,
                <<Max(minimum, required.segwitChange)>>), symbol)
        legacyWallet == deriveWalletFromMnemonic(words,
            AddressGenerationOptions(
                <<Max(minimum, required.legacyReceive)>>,
                <<Max(minimum, required.legacyChange)>>), symbol)
    IN  DiscoveryResult(segwitWallet.segwitAccount.addresses,
                        legacyWallet.legacyAccount.addresses)

\* the doubled count is not capped
NextCountUncapped(required) == required * 2

\* line 159
NextCount(required) == Min(required * 2, MaxAddressCap)

\* lines 162-176
FallbackResult(words, count, symbol) ==
    LET segwitWallet == deriveWalletFromMnemonic(words,
            AddressGenerationOptions(<<count>>, <<count>>), symbol)
        legacyWallet == deriveWalletFromMnemonic(words,
            AddressGenerationOptions(<<count>>, <<count>>), symbol)
    IN  DiscoveryResult(segwitWallet.segwitAccount.addresses,
                        legacyWallet.legacyAccount.addresses)

\* lines 106-176 from one batch size and iteration count on
RECURSIVE DiscoveryLoop(_, _, _, _, _, _, _)
DiscoveryLoop(words, txs, gap, minimum, symbol, count, iter) ==
    IF iter >= MaxIterations
    THEN [err |-> "none", value |-> FallbackResult(words, count, symbol)]
    ELSE LET scan == Scan(words, txs, gap, minimum, symbol, count)
         IN  IF scan.err # "none"
             THEN [err |-> scan.err, value |-> NoDiscovery]
             ELSE IF count >= scan.maxRequired
             THEN [err |-> "none",
                   value |-> ConvergedResult(words, scan.requiredCounts,
                                             minimum, symbol)]
             ELSE DiscoveryLoop(words, txs, gap, minimum, symbol,
                                NextCount(scan.maxRequired), iter + 1)

\* lines 92-177: err is "none" when `value` is returned
deriveWalletWithDiscovery(words, txs, gap, minimum, symbol) ==
    DiscoveryLoop(words, txs, gap, minimum, symbol,
                  Max(minimum, InitialBatch), 0)

\* the address map is consulted first and the hint only for unknown addresses
isOwnAddressMapFirst(address, isOwnFromApi, addressMap) ==
    HasAddress(addressMap, address) \/ isOwnFromApi = "true"

\* lines 184-196
isOwnAddress(address, isOwnFromApi, addressMap) ==
    IF isOwnFromApi # "undefined"
    THEN isOwnFromApi = "true"
    ELSE HasAddress(addressMap, address)

\* ------------------------------------------------- src/src/simpleMode.ts
\* simpleView.test.ts lines 15-22: a transaction whose input and output
\* both touch the address
makeTxTouching(address, txid) ==
    BlockbookTransaction(txid,
        <<TxEntry(<<address>>, "undefined")>>,
        <<TxEntry(<<address>>, "undefined")>>)

\* the transactions a simple-view history is made of
SimpleTxPool ==
    { makeTxTouching(DerivedAddress("p2wpkh", "receive", 0), "s0"),
      makeTxTouching(DerivedAddress("p2wpkh", "receive", 1), "s1"),
      makeTxTouching(DerivedAddress("p2wpkh", "change", 0), "sc0"),
      makeTxTouching(DerivedAddress("p2pkh", "receive", 0), "l0"),
      makeTxTouching(DerivedAddress("p2pkh", "receive", 1), "l1"),
      makeTxTouching(OtherAddress, "o0") }

SimpleHistories ==
    {h \in SUBSET SimpleTxPool : Cardinality(h) <= MaxTransactions}

\* the address lists the simple view is opened with
SimpleOptionChoices ==
    {AddressGenerationOptions(<<r>>, <<c>>) : r \in 0..2, c \in 0..1}

\* lines 4-23: the history's addresses that are keys of the address map
buildUsedAddressSet(txs, addressMap) ==
    LET entries == UNION {Range(tx.vin) \cup Range(tx.vout) : tx \in txs}
        touched == UNION {Range(e.addresses) : e \in entries}
    IN  {addr \in touched : HasAddress(addressMap, addr)}

\* Array.prototype.filter on a written-out address list
FilterType(list, type) ==
    LET IsType(addr) == addr.type = type IN SelectSeq(list, IsType)

\* Array.prototype.find of an address outside `used`: <<>> when none
FindUnused(list, used) ==
    LET positions == {i \in 1..Len(list) : list[i] \notin used}
    IN  IF positions = {} THEN <<>>
        ELSE <<list[CHOOSE i \in positions : \A j \in positions : i <= j]>>

\* the legacy receive addresses are looked at before the segwit ones
findFirstCleanReceiveAddressLegacyFirst(segwit, legacy, txs, addressMap) ==
    LET used == buildUsedAddressSet(txs, addressMap)
        segwitReceive ==
            FilterType(Addresses("p2wpkh", segwit), "receive")
        legacyReceive ==
            FilterType(Addresses("p2pkh", legacy), "receive")
        cleanSegwit == FindUnused(segwitReceive, used)
        cleanLegacy == FindUnused(legacyReceive, used)
    IN  IF cleanLegacy # <<>> THEN cleanLegacy
        ELSE IF cleanSegwit # <<>> THEN cleanSegwit
        ELSE IF segwitReceive # <<>> THEN <<segwitReceive[1]>>
        ELSE IF legacyReceive # <<>> THEN <<legacyReceive[1]>>
        ELSE <<>>

\* lines 25-43; the returned address is <<address>>, undefined is <<>>
findFirstCleanReceiveAddress(segwit, legacy, txs, addressMap) ==
    LET used == buildUsedAddressSet(txs, addressMap)
        segwitReceive ==
            FilterType(Addresses("p2wpkh", segwit), "receive")
        legacyReceive ==
            FilterType(Addresses("p2pkh", legacy), "receive")
        cleanSegwit == FindUnused(segwitReceive, used)
        cleanLegacy == FindUnused(legacyReceive, used)
    IN  IF cleanSegwit # <<>> THEN cleanSegwit
        ELSE IF cleanLegacy # <<>> THEN cleanLegacy
        ELSE IF segwitReceive # <<>> THEN <<segwitReceive[1]>>
        ELSE IF legacyReceive # <<>> THEN <<legacyReceive[1]>>
        ELSE <<>>

\* ---------------------------------------------------------------- the state
\* one call of buildSignedTransaction
VARIABLES utxos, outputs, changeAddress, feeRate,
          pc, err, outputWithTypes, changeValue, prospectiveOutputs,
          psbtOutputs, psbtInputs, signatures, result

\* one call of deriveWalletFromMnemonic, alone or followed by
\* findFirstCleanReceiveAddress for the derived addresses, or one call of
\* deriveWalletWithDiscovery and the classification of the history's
\* addresses that follows it
VARIABLES mnemonic, networkSymbol, options, wallet, receiveAddress,
          transactions, gapLimit, minAddresses, currentCount, iteration,
          discovered, ownership, walletPc, walletErr

inputs == <<utxos, outputs, changeAddress, feeRate>>
builderVars ==
    <<utxos, outputs, changeAddress, feeRate, pc, err, outputWithTypes,
      changeValue, prospectiveOutputs, psbtOutputs, psbtInputs,
      signatures, result>>
derivationVars == <<options, wallet, receiveAddress>>
discoveryVars ==
    <<transactions, gapLimit, minAddresses, currentCount, iteration,
      discovered, ownership>>
walletVars ==
    <<mnemonic, networkSymbol, options, wallet, receiveAddress,
      transactions, gapLimit, minAddresses, currentCount, iteration, discovered, ownership,
      walletPc, walletErr>>
vars == <<builderVars, walletVars>>

\* no call of deriveWalletFromMnemonic is made
DerivationIdle ==
    /\ options = NumberOption(DefaultCount)
    /\ wallet = NoWallet
    /\ receiveAddress = <<>>

\* no call of deriveWalletWithDiscovery is made
DiscoveryIdle ==
    /\ transactions = {}
    /\ gapLimit = GAP_LIMIT
    /\ minAddresses = DefaultCount
    /\ currentCount = 0
    /\ iteration = 0
    /\ discovered = NoDiscovery
    /\ ownership = <<>>

WalletIdle ==
    /\ mnemonic = TestMnemonic
    /\ networkSymbol = "btc"
    /\ walletPc = "idle"
    /\ walletErr = "none"
    /\ DerivationIdle
    /\ DiscoveryIdle

\* no call of buildSignedTransaction is made
BuilderIdle ==
    /\ utxos = <<>>
    /\ outputs = <<>>
    /\ changeAddress = NoAddress
    /\ feeRate = <<1, 1>>
    /\ pc = "idle"
    /\ err = "none"
    /\ outputWithTypes = <<>>
    /\ changeValue = 0
    /\ prospectiveOutputs = <<>>
    /\ psbtOutputs = <<>>
    /\ psbtInputs = <<>>
    /\ signatures = <<>>
    /\ result = NoResult

Init ==
    /\ utxos \in SeqsUpTo(UtxoChoices, MaxUtxos)
    /\ outputs \in SeqsUpTo(OutputChoices, MaxOutputs)
    /\ changeAddress \in ChangeChoices
    /\ feeRate \in FeeRates
    /\ pc = "checkInputs"
    /\ err = "none"
    /\ outputWithTypes = <<>>
    /\ changeValue = 0
    /\ prospectiveOutputs = <<>>
    /\ psbtOutputs = <<>>
    /\ psbtInputs = <<>>
    /\ signatures = <<>>
    /\ result = NoResult
    /\ WalletIdle

\* a throw: the promise rejects, nothing is returned.  The kinds name the
\* messages of the source:
\*   NoInputsSelected          'Select at least one UTXO'
\*   NoOutputsOrChange         'Add at least one output or specify a change
\*                             address', 'No outputs to build. ...'
\*   UnsupportedOutputAddress  'Unsupported output address: ...',
\*                             'Change address must be p2pkh or p2wpkh'
\*   InsufficientFunds         'Selected inputs cannot cover outputs and fee'
\*   NoValueRemaining          'No value remains for change after fees'
\*   OutputsExceedInputs       'Outputs exceed selected input value'
\*   MissingDerivationPath     'No derivation path found for ...'
\*   DerivationError           'Missing key material for ...'
\*   UnsupportedInputAddress   'Unsupported address format: ...'
\*   UnsupportedInputType      'Currently only native segwit UTXOs are
\*                             supported for signing'
\*   InvalidAddressPrefix, HashMismatch   thrown by bitcoinjs-lib
Throw(kind) ==
    /\ pc' = "failed"
    /\ err' = kind

\* lines 142-148
CheckInputs ==
    /\ pc = "checkInputs"
    /\ LET e == InputCheckError(utxos, outputs, changeAddress)
       IN  IF e # "none" THEN Throw(e)
           ELSE pc' = "classifyOutputs" /\ err' = err
    /\ UNCHANGED <<inputs, outputWithTypes, changeValue, prospectiveOutputs,
                   psbtOutputs, psbtInputs, signatures, result>>
    /\ UNCHANGED walletVars

\* lines 155-161
ClassifyOutputs ==
    /\ pc = "classifyOutputs"
    /\ LET types == [i \in 1..Len(outputs) |->
                        detectAddressType(outputs[i].address)]
       IN  IF \E i \in 1..Len(outputs) : types[i] = "null"
           THEN Throw("UnsupportedOutputAddress")
                  /\ outputWithTypes' = outputWithTypes
           ELSE pc' = "computeChange" /\ err' = err
                  /\ outputWithTypes' = types
    /\ UNCHANGED <<inputs, changeValue, prospectiveOutputs, psbtOutputs,
                   psbtInputs, signatures, result>>
    /\ UNCHANGED walletVars

\* lines 163-192
ChangeStep ==
    /\ pc = "computeChange"
    /\ LET c == ComputeChange(utxos, outputs, outputWithTypes, changeAddress,
                              feeRate)
       IN  /\ changeValue' = c.changeValue
           /\ prospectiveOutputs' = c.prospectiveOutputs
           /\ IF c.err # "none" THEN Throw(c.err)
              ELSE pc' = "assembleOutputs" /\ err' = err
    /\ UNCHANGED <<inputs, outputWithTypes, psbtOutputs, psbtInputs,
                   signatures, result>>
    /\ UNCHANGED walletVars

\* lines 194-205
AssembleOutputs ==
    /\ pc = "assembleOutputs"
    /\ LET e == AssembleError(utxos, prospectiveOutputs)
       IN  IF e # "none"
           THEN Throw(e) /\ psbtOutputs' = psbtOutputs
           ELSE pc' = "addInputs" /\ err' = err
                  /\ psbtOutputs' = prospectiveOutputs
    /\ UNCHANGED <<inputs, outputWithTypes, changeValue, prospectiveOutputs,
                   psbtInputs, signatures, result>>
    /\ UNCHANGED walletVars

\* signing starts as soon as one input is added
AddInputThenSign ==
    /\ pc = "addInputs"
    /\ LET utxo == utxos[Len(psbtInputs) + 1]
           e == AddInputError(utxo)
       IN  IF e # "none"
           THEN Throw(e) /\ psbtInputs' = psbtInputs
           ELSE /\ psbtInputs' = Append(psbtInputs, PsbtInput(utxo))
                /\ pc' = "signInputs"
                /\ err' = err
    /\ UNCHANGED <<inputs, outputWithTypes, changeValue, prospectiveOutputs,
                   psbtOutputs, signatures, result>>
    /\ UNCHANGED walletVars

\* lines 209-239, one UTXO of the forEach
AddInput ==
    /\ pc = "addInputs"
    /\ LET utxo == utxos[Len(psbtInputs) + 1]
           e == AddInputError(utxo)
       IN  IF e # "none"
           THEN Throw(e) /\ psbtInputs' = psbtInputs
           ELSE /\ psbtInputs' = Append(psbtInputs, PsbtInput(utxo))
                /\ pc' = IF Len(psbtInputs) + 1 = Len(utxos)
                         THEN "signInputs" ELSE "addInputs"
                /\ err' = err
    /\ UNCHANGED <<inputs, outputWithTypes, changeValue, prospectiveOutputs,
                   psbtOutputs, signatures, result>>
    /\ UNCHANGED walletVars

\* lines 241-243, one signer of the loop
SignInput ==
    /\ pc = "signInputs"
    /\ \E len \in SignatureLengths :
           signatures' = Append(signatures, len)
    /\ pc' = IF Len(signatures) + 1 = Len(psbtInputs)
             THEN "finalize" ELSE "signInputs"
    /\ UNCHANGED <<inputs, err, outputWithTypes, changeValue,
                   prospectiveOutputs, psbtOutputs, psbtInputs, result>>
    /\ UNCHANGED walletVars

\* lines 245-262
Finalize ==
    /\ pc = "finalize"
    /\ result' = BuildResult(utxos, prospectiveOutputs, changeValue,
                             changeAddress, psbtInputs, signatures)
    /\ pc' = "done"
    /\ UNCHANGED <<inputs, err, outputWithTypes, changeValue,
                   prospectiveOutputs, psbtOutputs, psbtInputs, signatures>>
    /\ UNCHANGED walletVars

Next ==
    \/ CheckInputs
    \/ ClassifyOutputs
    \/ ChangeStep
    \/ AssembleOutputs
    \/ AddInput
    \/ SignInput
    \/ Finalize

Spec == Init /\ [][Next]_vars

TypeOK ==
    /\ pc \in {"checkInputs", "classifyOutputs", "computeChange",
               "assembleOutputs", "addInputs", "signInputs", "finalize",
               "done", "failed"}
    /\ (pc = "failed") <=> (err # "none")
    /\ Len(psbtInputs) <= Len(utxos)
    /\ Len(signatures) <= Len(psbtInputs)

\* ------------------------------------- one call of deriveWalletFromMnemonic
DerivationInit ==
    /\ mnemonic \in Mnemonics
    /\ networkSymbol \in NetworkSymbols
    /\ options \in OptionChoices
    /\ wallet = NoWallet
    /\ receiveAddress = <<>>
    /\ walletPc = "deriving"
    /\ walletErr = "none"
    /\ DiscoveryIdle
    /\ BuilderIdle

\* bitcoin.ts lines 152-229; a throw leaves no wallet
DeriveWallet ==
    /\ walletPc = "deriving"
    /\ LET derived == deriveWalletFromMnemonic(mnemonic, options,
                                               networkSymbol)
       IN  /\ wallet' = derived
           /\ walletErr' = derived.err
           /\ walletPc' = IF derived.err = "none" THEN "derived" ELSE "failed"
    /\ UNCHANGED <<mnemonic, networkSymbol, options, receiveAddress,
                   discoveryVars, builderVars>>

DerivationNext == DeriveWallet

DerivationSpec == DerivationInit /\ [][DerivationNext]_vars

\* ------------------------------------------------------- the simple view
\* the wallet is derived and the simple view asks for the address to show
SimpleModeInit ==
    /\ mnemonic \in Mnemonics
    /\ networkSymbol \in NetworkSymbols
    /\ options \in SimpleOptionChoices
    /\ wallet = NoWallet
    /\ receiveAddress = <<>>
    /\ walletPc = "deriving"
    /\ walletErr = "none"
    /\ transactions \in SimpleHistories
    /\ gapLimit = GAP_LIMIT
    /\ minAddresses = DefaultCount
    /\ currentCount = 0
    /\ iteration = 0
    /\ discovered = NoDiscovery
    /\ ownership = <<>>
    /\ BuilderIdle

\* SimpleView (part_009 line 206): the lists, the history and the address
\* map built of the lists (App.tsx lines 510-511)
FindReceiveAddress ==
    /\ walletPc = "derived"
    /\ receiveAddress' =
           findFirstCleanReceiveAddress(
               wallet.segwitAccount.addresses,
               wallet.legacyAccount.addresses,
               transactions,
               AllAddresses(wallet.segwitAccount.addresses,
                            wallet.legacyAccount.addresses))
    /\ walletPc' = "found"
    /\ UNCHANGED <<mnemonic, networkSymbol, options, wallet, walletErr,
                   discoveryVars, builderVars>>

SimpleModeNext == DeriveWallet \/ FindReceiveAddress

SimpleModeSpec == SimpleModeInit /\ [][SimpleModeNext]_vars

\* ------------------------------------ one call of deriveWalletWithDiscovery
\* lines 92-104
DiscoveryInit ==
    /\ mnemonic \in Mnemonics
    /\ networkSymbol \in NetworkSymbols
    /\ transactions \in Histories
    /\ gapLimit \in GapLimits
    /\ minAddresses \in MinAddressChoices
    /\ currentCount = Max(minAddresses, InitialBatch)
    /\ iteration = 0
    /\ discovered = NoDiscovery
    /\ ownership = <<>>
    /\ walletPc = "discovering"
    /\ walletErr = "none"
    /\ DerivationIdle
    /\ BuilderIdle

\* lines 110-137 at the current batch size
CurrentScan ==
    Scan(mnemonic, transactions, gapLimit, minAddresses, networkSymbol,
         currentCount)

\* lines 106-113: deriveWalletFromMnemonic throws
DiscoveryThrows ==
    /\ walletPc = "discovering"
    /\ iteration < MaxIterations
    /\ CurrentScan.err # "none"
    /\ iteration' = iteration + 1
    /\ walletPc' = "failed"
    /\ walletErr' = CurrentScan.err
    /\ UNCHANGED <<mnemonic, networkSymbol, derivationVars, transactions,
                   gapLimit, minAddresses, currentCount, discovered,
                   ownership, builderVars>>

\* lines 106-156: a loop iteration that returns
DiscoveryConverges ==
    /\ walletPc = "discovering"
    /\ iteration < MaxIterations
    /\ CurrentScan.err = "none"
    /\ currentCount >= CurrentScan.maxRequired
    /\ iteration' = iteration + 1
    /\ discovered' = ConvergedResult(mnemonic, CurrentScan.requiredCounts,
                                     minAddresses, networkSymbol)
    /\ walletPc' = "converged"
    /\ UNCHANGED <<mnemonic, networkSymbol, derivationVars, transactions,
                   gapLimit, minAddresses, currentCount, ownership,
                   walletErr, builderVars>>

\* the iteration is not counted
DiscoveryExpandsWithoutCounting ==
    /\ walletPc = "discovering"
    /\ iteration < MaxIterations
    /\ CurrentScan.err = "none"
    /\ currentCount < CurrentScan.maxRequired
    /\ currentCount' = NextCount(CurrentScan.maxRequired)
    /\ UNCHANGED <<mnemonic, networkSymbol, derivationVars, transactions,
                   gapLimit, minAddresses, iteration, discovered, ownership,
                   walletPc, walletErr, builderVars>>

\* lines 106-159: a loop iteration that asks for more addresses
DiscoveryExpands ==
    /\ walletPc = "discovering"
    /\ iteration < MaxIterations
    /\ CurrentScan.err = "none"
    /\ currentCount < CurrentScan.maxRequired
    /\ iteration' = iteration + 1
    /\ currentCount' = NextCount(CurrentScan.maxRequired)
    /\ UNCHANGED <<mnemonic, networkSymbol, derivationVars, transactions,
                   gapLimit, minAddresses, discovered, ownership, walletPc,
                   walletErr, builderVars>>

\* lines 162-176: the loop ended without returning
DiscoveryFallsBack ==
    /\ walletPc = "discovering"
    /\ iteration >= MaxIterations
    /\ discovered' = FallbackResult(mnemonic, currentCount, networkSymbol)
    /\ walletPc' = "fellBack"
    /\ UNCHANGED <<mnemonic, networkSymbol, derivationVars, transactions,
                   gapLimit, minAddresses, currentCount, iteration,
                   ownership, walletErr, builderVars>>

\* the address map of the wallet view, App.tsx: allAddresses, addressMap
DiscoveredAddressMap ==
    AllAddresses(discovered.segwitAddresses, discovered.legacyAddresses)

\* TransactionList.tsx: isOwnAddress for the first address of an input or
\* an output of the history, with the map of the discovered addresses
ClassifyAddress ==
    /\ walletPc \in {"converged", "fellBack"}
    /\ \E tx \in transactions :
         \E entry \in Range(tx.vin) \cup Range(tx.vout) :
            /\ entry.addresses # <<>>
            /\ ownership' =
                 <<[address |-> entry.addresses[1], isOwn |-> entry.isOwn,
                    own |-> isOwnAddress(entry.addresses[1], entry.isOwn,
                                         DiscoveredAddressMap)]>>
    /\ UNCHANGED <<mnemonic, networkSymbol, derivationVars, transactions,
                   gapLimit, minAddresses, currentCount, iteration,
                   discovered, walletPc, walletErr, builderVars>>

DiscoveryNext ==
    \/ DiscoveryThrows
    \/ DiscoveryConverges
    \/ DiscoveryExpands
    \/ DiscoveryFallsBack
    \/ ClassifyAddress

DiscoverySpec == DiscoveryInit /\ [][DiscoveryNext]_vars

\* the loop of the state machine returns what the function returns
DiscoveryTypeOK ==
    /\ walletPc \in {"discovering", "converged", "fellBack", "failed"}
    /\ iteration \in 0..MaxIterations
    /\ (walletPc = "failed") <=> (walletErr # "none")
    /\ walletPc \in {"converged", "fellBack"} =>
          deriveWalletWithDiscovery(mnemonic, transactions, gapLimit,
              minAddresses, networkSymbol)
            = [err |-> "none", value |-> discovered]
    /\ walletPc = "failed" =>
          deriveWalletWithDiscovery(mnemonic, transactions, gapLimit,
              minAddresses, networkSymbol).err = walletErr

\* ------------------------------------------------------------------ claims
Terminal == pc \in {"done", "failed"}

FailedWith(kind) == pc = "failed" /\ err = kind

RequestedTypes ==
    [i \in 1..Len(outputs) |-> detectAddressType(outputs[i].address)]

\* every requested output and the change address, when given, has a type
AddressesClassify ==
    /\ \A i \in 1..Len(outputs) : RequestedTypes[i] # "null"
    /\ changeAddress # NoAddress => detectAddressType(changeAddress) # "null"

\* the fee estimate of section 4.7 for the call's inputs; without a change
\* address there is no change output to weigh
CallFeeEstimate ==
    IF changeAddress = NoAddress
    THEN Ceil((BaseOverhead + InputWeights(utxos)
                 + OutputWeights(RequestedTypes)) * feeRate[1], feeRate[2])
    ELSE feeEstimate(utxos, RequestedTypes, detectAddressType(changeAddress),
                     feeRate)

CallChangeValue == SumValues(utxos) - SumAmounts(outputs) - CallFeeEstimate

\* |fee / vsize - rate| <= rate / 10, in integers
WithinTenPercent(fraction, rate) ==
    LET lhs == fraction[1] * rate[2]
        rhs == rate[1] * fraction[2]
        diff == IF lhs >= rhs THEN lhs - rhs ELSE rhs - lhs
    IN  10 * diff <= rhs

\* C1: in every result, totalInput is the sum of the selected UTXO values,
\* totalOutput the sum of the result's outputs (change included), and
\* totalOutput + feeSats = totalInput.
C1_ValueConserved ==
    pc = "done" =>
        /\ result.totalInput = SumValues(utxos)
        /\ result.totalOutput = SumAmounts(result.outputs)
        /\ result.totalOutput + result.feeSats = result.totalInput

C1_Witness ==
    /\ pc = "done"
    /\ Len(outputs) = 2
    /\ result.changeOutput # <<>>
    /\ result.feeSats > 0

C3_FeeRateAlwaysWithinTolerance ==
    pc = "done" => WithinTenPercent(result.effectiveFeeRate, feeRate)

\* C3 amended: in every result that carries a change output, feeSats / vsize
\* is within 10% of the requested fee rate (fee rates of at least 1 sat/vB).
C3_FeeRateWithinToleranceWithChange ==
    (pc = "done" /\ result.changeOutput # <<>>)
        => WithinTenPercent(result.effectiveFeeRate, feeRate)

C3_Witness ==
    /\ pc = "done"
    /\ result.changeOutput # <<>>
    /\ Len(result.inputs) = 2
    /\ feeRate = <<3, 2>>
    /\ result.effectiveFeeRate[1] # result.effectiveFeeRate[2]

\* the errors of lines 142-205, thrown before any UTXO is looked at
ValidationErrors ==
    {"NoInputsSelected", "NoOutputsOrChange", "UnsupportedOutputAddress",
     "InsufficientFunds", "NoValueRemaining", "OutputsExceedInputs"}

\* every UTXO passes lines 210-220
AllInputsSignable ==
    \A i \in 1..Len(utxos) : AddInputError(utxos[i]) = "none"

\* no requested output, a change address of the network with a type, and
\* inputs above the fee estimate
SweepCall ==
    /\ outputs = <<>>
    /\ changeAddress # NoAddress
    /\ detectAddressType(changeAddress) # "null"
    /\ HasNetworkPrefix(changeAddress)
    /\ SumValues(utxos) > CallFeeEstimate

\* C4: a build with no requested output, a change address and inputs above
\* the fee estimate is not rejected by validation; it returns a result once
\* its inputs are signed, and the result has exactly one output, at the
\* change address, of amount totalInput - feeSats.
C4_SweepSendsAllToChange ==
    SweepCall =>
        /\ pc = "failed" => err \notin ValidationErrors
        /\ (Terminal /\ AllInputsSignable) => pc = "done"
        /\ pc = "done" =>
               /\ Len(result.outputs) = 1
               /\ result.outputs[1].address = changeAddress
               /\ result.outputs[1].amountSats
                      = result.totalInput - result.feeSats
               /\ result.totalInput = SumValues(utxos)

C4_Witness ==
    /\ SweepCall
    /\ pc = "done"
    /\ Len(utxos) = 2
    /\ result.outputs[1].amountSats > 0

\* C5: a build with no requested output, a change address and inputs equal
\* to the fee estimate (change value 0) fails with NoValueRemaining.
C5_ZeroChangeSweepFails ==
    (Terminal /\ outputs = <<>> /\ changeAddress # NoAddress
       /\ detectAddressType(changeAddress) # "null"
       /\ SumValues(utxos) = CallFeeEstimate)
        => FailedWith("NoValueRemaining")

C5_Witness ==
    /\ FailedWith("NoValueRemaining")
    /\ Len(utxos) >= 1
    /\ changeValue = 0
    /\ SumValues(utxos) = CallFeeEstimate

\* C6: a build without UTXOs fails with NoInputsSelected, whatever the
\* outputs, the change address and the fee rate, and no other check runs.
C6_NoInputsSelectedFirst ==
    utxos = <<>> =>
        /\ pc \in {"checkInputs", "failed"}
        /\ pc = "failed" => err = "NoInputsSelected"

C6_Witness ==
    /\ utxos = <<>>
    /\ FailedWith("NoInputsSelected")
    /\ outputs = <<>>
    /\ changeAddress = NoAddress

\* C7: a build with UTXOs, no requested output and no change address fails
\* with NoOutputsOrChange, and no result has an empty output list.
C7_NoOutputsOrChange ==
    /\ (Terminal /\ Len(utxos) >= 1 /\ outputs = <<>>
          /\ changeAddress = NoAddress)
           => FailedWith("NoOutputsOrChange")
    /\ pc = "done" => Len(result.outputs) >= 1

C7_Witness ==
    /\ FailedWith("NoOutputsOrChange")
    /\ Len(utxos) >= 1
    /\ outputs = <<>>
    /\ changeAddress = NoAddress

\* section 4.3, decodeAddress for the bitcoin network: version-0, 20-byte
\* bech32 with the network's prefix, or base58check with its P2PKH version
RecognizedForNetwork(address) ==
    \/ /\ address.enc = "bech32"
       /\ address.hrp = "bc"
       /\ address.version = 0
       /\ address.len = 20
    \/ /\ address.enc = "base58"
       /\ address.version = PubKeyHash

InputStageReached == Len(psbtOutputs) >= 1

HasNoPath(utxo) ==
    utxo.path = NoPath /\ AddressMapPath(utxo.address) = NoPath

\* the path section 4.7 signs a UTXO with
SigningPath(utxo) ==
    IF utxo.path # NoPath THEN utxo.path ELSE AddressMapPath(utxo.address)

\* a UTXO section 4.7 can sign: p2wpkh or p2pkh, its path leading to the key
\* of its address, the previous transaction supplied when it is p2pkh
Spendable(utxo) ==
    /\ detectAddressType(utxo.address) \in {"p2wpkh", "p2pkh"}
    /\ RecognizedForNetwork(utxo.address)
    /\ SigningPath(utxo) # NoPath
    /\ KeyOfPath(SigningPath(utxo)) = utxo.address.hash
    /\ detectAddressType(utxo.address) = "p2pkh" => utxo.hex

\* C9: every input is signed with the UTXO's own path when it has one, else
\* with the path of its address in the address map; and once validation has
\* passed, a build whose UTXOs are each spendable or without any path fails
\* with MissingDerivationPath exactly when some UTXO has no path.
C9_MissingPathIffUnresolvable ==
    /\ \A i \in 1..Len(psbtInputs) : psbtInputs[i].path = SigningPath(utxos[i])
    /\ (/\ Terminal
        /\ InputStageReached
        /\ \A i \in 1..Len(utxos) : Spendable(utxos[i]) \/ HasNoPath(utxos[i]))
           => (FailedWith("MissingDerivationPath")
                 <=> \E i \in 1..Len(utxos) : HasNoPath(utxos[i]))

\* C10: once validation has passed, a build of one spendable p2wpkh UTXO and
\* one spendable p2pkh UTXO returns a result with two signed inputs and
\* totalInput the sum of both values.
C10_MixedInputsBuild ==
    (/\ Terminal
     /\ InputStageReached
     /\ Len(utxos) = 2
     /\ \A i \in 1..2 : Spendable(utxos[i])
     /\ {detectAddressType(utxos[i].address) : i \in 1..2}
            = {"p2wpkh", "p2pkh"})
        => /\ pc = "done"
           /\ Len(result.inputs) = 2
           /\ result.totalInput = utxos[1].value + utxos[2].value

\* a p2pkh UTXO with a path to its own key and no previous transaction
LacksPreviousTransaction(utxo) ==
    /\ detectAddressType(utxo.address) = "p2pkh"
    /\ RecognizedForNetwork(utxo.address)
    /\ SigningPath(utxo) # NoPath
    /\ KeyOfPath(SigningPath(utxo)) = utxo.address.hash
    /\ ~utxo.hex

\* C11: once validation has passed, a build whose UTXOs are each spendable or
\* p2pkh without the previous transaction fails with
\* MissingPreviousTransaction, and with no other kind, when some p2pkh UTXO
\* lacks the previous transaction.
C11_MissingPreviousTransaction ==
    (/\ Terminal
     /\ InputStageReached
     /\ \A i \in 1..Len(utxos) :
            Spendable(utxos[i]) \/ LacksPreviousTransaction(utxos[i])
     /\ \E i \in 1..Len(utxos) : LacksPreviousTransaction(utxos[i]))
        => FailedWith("MissingPreviousTransaction")

\* C12: a call that returned has a result in which every selected UTXO is a
\* signed input, in order, and whose totals agree with the UTXOs and with
\* its own outputs; a call that has not returned, failed at whatever stage
\* or still running with some inputs added or signed, has no result.
C12_CompleteResultOrNone ==
    /\ pc = "done" =>
          /\ err = "none"
          /\ Len(result.inputs) = Len(utxos)
          /\ \A i \in 1..Len(utxos) :
                 /\ result.inputs[i].utxo = i
                 /\ result.inputs[i].path = SigningPath(utxos[i])
                 /\ result.inputs[i].signature \in SignatureLengths
          /\ result.totalInput = SumValues(utxos)
          /\ result.totalOutput = SumAmounts(result.outputs)
          /\ result.feeSats = result.totalInput - result.totalOutput
          /\ result.feeSats >= 0
    /\ pc # "done" => result = NoResult

\* the second input cannot be added after the first one was
C12_Witness ==
    /\ pc = "failed"
    /\ Len(utxos) = 2
    /\ Len(psbtInputs) = 1
    /\ result = NoResult

C12_WitnessDone ==
    /\ pc = "done"
    /\ Len(result.inputs) = 2

C13_WitnessFires ==
    /\ changeAddress = NoAddress
    /\ FailedWith("OutputsExceedInputs")

\* the dust threshold of the test 'should not create dust change'
DustThreshold == 500

\* C14: the change output of every result is worth more than 500 sats.
C14_NoDustChange ==
    (pc = "done" /\ result.changeOutput # <<>>)
        => result.changeOutput[1].amountSats > DustThreshold

\* deriveWalletWithDiscovery has returned
DiscoveryReturned == walletPc \in {"converged", "fellBack"}

\* the network of the call has a native segwit account
HasSegwitAccount ==
    /\ networkSymbol \in DOMAIN NETWORKS
    /\ NETWORKS[networkSymbol].bech32Prefix # ""

\* the indices of a chain the history touches, derived so far or not
UsedIndices(txs, format, type) ==
    {a.index : a \in
        {b \in UNION {Range(e.addresses) :
                 e \in UNION {Range(tx.vin) \cup Range(tx.vout) : tx \in txs}} :
            b.format = format /\ b.type = type}}

HighestUsedIndex(txs, format, type) ==
    SetMax({-1} \cup UsedIndices(txs, format, type))

\* the number of addresses returned on each chain
ChainCounts(value) ==
    [segwitReceive |-> value.segwitAddresses.receive,
     segwitChange  |-> value.segwitAddresses.change,
     legacyReceive |-> value.legacyAddresses.receive,
     legacyChange  |-> value.legacyAddresses.change]

\* C15: when the highest index the history uses on the segwit receive chain
\* is 37 and gapLimit is 20, the returned object has at least 58 segwit
\* receive addresses and a field `converged` that is true.
C15_Index37ConvergesFlagged ==
    (/\ DiscoveryReturned
     /\ HasSegwitAccount
     /\ gapLimit = GAP_LIMIT
     /\ HighestUsedIndex(transactions, "p2wpkh", "receive") = 37)
        => /\ discovered.segwitAddresses.receive >= 37 + GAP_LIMIT + 1
           /\ "converged" \in DOMAIN discovered
           /\ discovered.converged = TRUE

\* C16 as stated: for the empty history every chain of every account the
\* network has is returned with exactly minAddresses addresses.
C16_EmptyHistoryMinAddresses ==
    (DiscoveryReturned /\ transactions = {})
        => /\ discovered.legacyAddresses
                = AddressList(minAddresses, minAddresses)
           /\ HasSegwitAccount =>
                discovered.segwitAddresses
                    = AddressList(minAddresses, minAddresses)

\* C16: for the empty history every chain of every account the network has
\* is returned with exactly max(minAddresses, gapLimit) addresses when
\* gapLimit <= max(minAddresses, 10000), and with exactly 10000 otherwise;
\* the segwit list of a network without segwit is empty.
C16_EmptyHistoryGapOrMin ==
    (DiscoveryReturned /\ transactions = {})
        => LET n == IF gapLimit <= Max(minAddresses, MaxAddressCap)
                    THEN Max(minAddresses, gapLimit)
                    ELSE MaxAddressCap
           IN  /\ discovered.legacyAddresses = AddressList(n, n)
               /\ discovered.segwitAddresses
                    = IF HasSegwitAccount THEN AddressList(n, n)
                      ELSE AddressList(0, 0)

C16_Witness ==
    /\ walletPc = "converged"
    /\ transactions = {}
    /\ gapLimit > minAddresses
    /\ HasSegwitAccount
    /\ discovered.segwitAddresses = AddressList(gapLimit, gapLimit)

\* C17: when the loop ends without the convergence condition having held,
\* the returned object has the addresses of the last batch size on every
\* chain and a field `converged` that is false.
C17_NonConvergenceFlagged ==
    walletPc = "fellBack"
        => /\ discovered.legacyAddresses
                = AddressList(currentCount, currentCount)
           /\ "converged" \in DOMAIN discovered
           /\ discovered.converged = FALSE

\* C18: for every history contained in the history of the call, the call
\* with the same mnemonic, network, gapLimit and minAddresses returns on no
\* chain more addresses than this call does.
C18_MonotonicInHistory ==
    DiscoveryReturned =>
        \A h \in SUBSET transactions :
            LET sub == deriveWalletWithDiscovery(mnemonic, h, gapLimit,
                           minAddresses, networkSymbol)
            IN  \A c \in Chains :
                    ChainCounts(sub.value)[c] <= ChainCounts(discovered)[c]

\* the address is one of the discovered addresses
InDiscovered(address) ==
    \/ /\ address.format = "p2wpkh"
       /\ address.index \in 0..(discovered.segwitAddresses[address.type] - 1)
    \/ /\ address.format = "p2pkh"
       /\ address.index \in 0..(discovered.legacyAddresses[address.type] - 1)

\* C19: an address classified with a hint is own exactly when the hint is
\* true, in the address map or not; one classified without a hint is own
\* exactly when it is in the address map.
C19_HintBeforeAddressMap ==
    ownership # <<>> =>
        LET o == ownership[1]
        IN  /\ o.isOwn = "true" => o.own
            /\ o.isOwn = "false" => ~o.own
            /\ o.isOwn = "undefined" => (o.own <=> InDiscovered(o.address))

\* hint and map disagree, the hint decides
C19_Witness ==
    /\ ownership # <<>>
    /\ ownership[1].isOwn = "false"
    /\ InDiscovered(ownership[1].address)
    /\ ~ownership[1].own

C19_WitnessHintTrue ==
    /\ ownership # <<>>
    /\ ownership[1].isOwn = "true"
    /\ ownership[1].address.format = "p2wpkh"
    /\ ~InDiscovered(ownership[1].address)
    /\ ownership[1].own

\* the addresses of one chain role in a written-out list
OfType(format, list, type) ==
    {a \in Range(Addresses(format, list)) : a.type = type}

\* C20: a wallet derived from a number `count` has, in its legacy account
\* and in its segwit account when the network has one, exactly count receive
\* addresses and exactly max(2, floor(count / 2)) change addresses.
C20_NumberOptionCounts ==
    (walletPc = "derived" /\ options.kind = "number") =>
        LET n == options.count
            half == IF n \div 2 >= 2 THEN n \div 2 ELSE 2
            legacy == wallet.legacyAccount.addresses
            segwit == wallet.segwitAccount.addresses
        IN  /\ Cardinality(OfType("p2pkh", legacy, "receive")) = n
            /\ Cardinality(OfType("p2pkh", legacy, "change")) = half
            /\ HasSegwitAccount =>
                 /\ Cardinality(OfType("p2wpkh", segwit, "receive")) = n
                 /\ Cardinality(OfType("p2wpkh", segwit, "change")) = half

\* count = 1 yields one receive and two change addresses
C20_Witness ==
    /\ walletPc = "derived"
    /\ options = NumberOption(1)
    /\ HasSegwitAccount
    /\ Len(Addresses("p2wpkh", wallet.segwitAccount.addresses)) = 3
    /\ Cardinality(OfType("p2wpkh", wallet.segwitAccount.addresses,
                          "change")) = 2

\* the counts deriveWalletFromMnemonic is asked for
RequestedReceiveCount ==
    IF options.kind = "number" THEN options.count
    ELSE IF options.receiveCount # <<>> THEN options.receiveCount[1]
    ELSE DefaultCount

RequestedChangeCount ==
    IF options.kind = "object" /\ options.changeCount # <<>>
    THEN options.changeCount[1]
    ELSE IF RequestedReceiveCount \div 2 >= 2
         THEN RequestedReceiveCount \div 2 ELSE 2

\* a written-out list is the receive addresses 0..r-1 in order followed by
\* the change addresses 0..c-1 in order
ReceiveThenChange(list, format, r, c) ==
    /\ Len(list) = r + c
    /\ \A i \in 1..r : list[i] = DerivedAddress(format, "receive", i - 1)
    /\ \A j \in 1..c : list[r + j] = DerivedAddress(format, "change", j - 1)

\* C21: a call with the valid mnemonic and one of the four networks returns
\* a wallet; its legacy account lists receiveCount receive addresses of
\* indices 0.. in order, then changeCount change addresses of indices 0..;
\* its segwit account lists the same when the network has a bech32 prefix
\* and zpub version bytes, and no address otherwise.
C21_AccountsByNetwork ==
    /\ (/\ walletPc \in {"derived", "failed"}
        /\ validateMnemonic(mnemonic)
        /\ networkSymbol \in DOMAIN NETWORKS)
           => walletPc = "derived"
    /\ walletPc = "derived" =>
          /\ ReceiveThenChange(
                 Addresses("p2pkh", wallet.legacyAccount.addresses),
                 "p2pkh", RequestedReceiveCount, RequestedChangeCount)
          /\ IF /\ NETWORKS[networkSymbol].bech32Prefix # ""
                /\ NETWORKS[networkSymbol].zpubPrefix
             THEN ReceiveThenChange(
                      Addresses("p2wpkh", wallet.segwitAccount.addresses),
                      "p2wpkh", RequestedReceiveCount, RequestedChangeCount)
             ELSE Addresses("p2wpkh", wallet.segwitAccount.addresses) = <<>>

\* a network without segwit: legacy addresses only
C21_Witness ==
    /\ walletPc = "derived"
    /\ networkSymbol = "doge"
    /\ options = AddressGenerationOptions(<<3>>, <<1>>)
    /\ Len(Addresses("p2pkh", wallet.legacyAccount.addresses)) = 4
    /\ Addresses("p2wpkh", wallet.segwitAccount.addresses) = <<>>

\* the addresses that appear in an input or output of the history
HistoryAddresses ==
    UNION {Range(e.addresses) :
             e \in UNION {Range(tx.vin) \cup Range(tx.vout) :
                            tx \in transactions}}

\* the receive addresses of the wallet's two lists, in list order
SegwitReceive ==
    [i \in 1..wallet.segwitAccount.addresses.receive |->
        DerivedAddress("p2wpkh", "receive", i - 1)]

LegacyReceive ==
    [i \in 1..wallet.legacyAccount.addresses.receive |->
        DerivedAddress("p2pkh", "receive", i - 1)]

CleanPositions(list) ==
    {i \in 1..Len(list) : list[i] \notin HistoryAddresses}

FirstPosition(positions) ==
    CHOOSE i \in positions : \A j \in positions : i <= j

\* C22: the address findFirstCleanReceiveAddress returns is on a receive
\* chain; it is the unused segwit receive address of lowest position when
\* there is one, else the unused legacy receive address of lowest position
\* when there is one, and otherwise (every receive address is used) the
\* first segwit receive address, or the first legacy one when there is no
\* segwit receive address.
C22_FirstCleanReceiveAddress ==
    walletPc = "found" =>
        /\ \A i \in 1..Len(receiveAddress) :
               receiveAddress[i].type = "receive"
        /\ CleanPositions(SegwitReceive) # {} =>
               receiveAddress =
                   <<SegwitReceive[FirstPosition(
                                       CleanPositions(SegwitReceive))]>>
        /\ (/\ CleanPositions(SegwitReceive) = {}
            /\ CleanPositions(LegacyReceive) # {}) =>
               receiveAddress =
                   <<LegacyReceive[FirstPosition(
                                       CleanPositions(LegacyReceive))]>>
        /\ (/\ CleanPositions(SegwitReceive) = {}
            /\ CleanPositions(LegacyReceive) = {}
            /\ Len(SegwitReceive) + Len(LegacyReceive) > 0) =>
               receiveAddress =
                   IF Len(SegwitReceive) > 0 THEN <<SegwitReceive[1]>>
                   ELSE <<LegacyReceive[1]>>

\* both segwit receive addresses are used and a used change address is
\* passed over: the second legacy receive address is returned
C22_Witness ==
    /\ walletPc = "found"
    /\ Len(SegwitReceive) = 2
    /\ CleanPositions(SegwitReceive) = {}
    /\ DerivedAddress("p2pkh", "receive", 0) \in HistoryAddresses
    /\ wallet.segwitAccount.addresses.change = 1
    /\ receiveAddress = <<DerivedAddress("p2pkh", "receive", 1)>>

\* every receive address is used: the first segwit one is returned
C22_WitnessAllUsed ==
    /\ walletPc = "found"
    /\ Len(SegwitReceive) = 1
    /\ CleanPositions(SegwitReceive) = {}
    /\ CleanPositions(LegacyReceive) = {}
    /\ receiveAddress = <<DerivedAddress("p2wpkh", "receive", 0)>>

\* the format and the chain type of each of the four chains
ChainOf ==
    [segwitReceive |-> [format |-> "p2wpkh", type |-> "receive"],
     segwitChange  |-> [format |-> "p2wpkh", type |-> "change"],
     legacyReceive |-> [format |-> "p2pkh", type |-> "receive"],
     legacyChange  |-> [format |-> "p2pkh", type |-> "change"]]

\* the chains of the account types the network of the call has
SupportedChains ==
    {c \in Chains : ChainOf[c].format = "p2wpkh" => HasSegwitAccount}

\* the highest index the history uses on a chain within the first `count`
\* addresses of the chain, -1 when it uses none of them
MaxUsedWithin(c, count) ==
    SetMax({-1} \cup
           {i \in UsedIndices(transactions, ChainOf[c].format,
                              ChainOf[c].type) : i < count})

\* no address among the last gapLimit positions of a returned chain is in
\* the history
LastGapUnused(c) ==
    LET n == ChainCounts(discovered)[c]
    IN  \A a \in HistoryAddresses :
           (a.format = ChainOf[c].format /\ a.type = ChainOf[c].type) =>
               ~(n - gapLimit <= a.index /\ a.index < n)

Target ==
    Max(SetMax({MaxUsedWithin(c, currentCount) + gapLimit + 1 :
                  c \in SupportedChains}),
        minAddresses)

\* a loop iteration that did not converge: the loop goes on
IterationWithoutConvergence ==
    /\ walletPc = "discovering"
    /\ walletPc' = "discovering"
    /\ iteration' = iteration + 1

C25_BoundedIterations ==
    /\ [](iteration <= 10)
    /\ [][walletPc = "discovering" =>
            \/ iteration < 10 /\ iteration' = iteration + 1
            \/ iteration = 10 /\ walletPc' = "fellBack"]_vars

\* the batch stayed at the cap, where it saw the used index 6000 and
\* required more than the cap, until the tenth iteration; then the
\* fallback returned
C25_Witness ==
    /\ walletPc = "fellBack"
    /\ iteration = 10
    /\ currentCount = MaxAddressCap
    /\ 6000 \in UsedIndices(transactions, "p2pkh", "receive")
    /\ CurrentScan.maxIndices.legacyReceive = 6000
    /\ CurrentScan.maxRequired > MaxAddressCap
    /\ discovered.legacyAddresses.receive = MaxAddressCap

\* the change value of the call: 0 without a change address
CallChange ==
    IF changeAddress = NoAddress THEN 0 ELSE CallChangeValue

\* C26: the outputs of a returned result, which are the outputs of the
\* transaction, are the requested outputs in the requested order, followed
\* by one output of changeValue to changeAddress exactly when
\* changeValue > 0; the field changeOutput is that output when it was
\* appended and absent otherwise.
C26_OutputsThenChange ==
    pc = "done" =>
        /\ changeValue = CallChange
        /\ psbtOutputs = result.outputs
        /\ IF CallChange > 0
           THEN /\ result.outputs =
                       Append(outputs,
                              TxOutputRequest(changeAddress, CallChange))
                /\ result.changeOutput =
                       <<result.outputs[Len(result.outputs)]>>
           ELSE /\ result.outputs = outputs
                /\ result.changeOutput = <<>>

\* two requested outputs and the change appended as the third
C26_Witness ==
    /\ pc = "done"
    /\ Len(outputs) = 2
    /\ outputs[1] # outputs[2]
    /\ Len(result.outputs) = 3
    /\ result.changeOutput = <<TxOutputRequest(changeAddress, changeValue)>>
    /\ changeValue > 0

\* a change address is given and nothing is left for it: no change output
C26_WitnessNoChange ==
    /\ pc = "done"
    /\ changeAddress # NoAddress
    /\ changeValue = 0
    /\ result.outputs = outputs
    /\ result.changeOutput = <<>>

\* the weights C27 names, by the type of an address
ClaimedInputWeight(address) ==
    IF detectAddressType(address) = "p2wpkh" THEN 68
    ELSE IF detectAddressType(address) = "p2pkh" THEN 148 ELSE 0

ClaimedOutputWeight(address) ==
    IF detectAddressType(address) = "p2wpkh" THEN 31
    ELSE IF detectAddressType(address) = "p2pkh" THEN 34 ELSE 0

\* 10 + the inputs + the requested outputs + one change output
ClaimedVsize ==
    10 + SumSeq([i \in 1..Len(utxos) |-> ClaimedInputWeight(utxos[i].address)])
       + SumSeq([i \in 1..Len(outputs) |->
                    ClaimedOutputWeight(outputs[i].address)])
       + ClaimedOutputWeight(changeAddress)

\* the least integer not below num / den
LeastIntegerAtLeast(num, den) ==
    CHOOSE n \in 0..num : n * den >= num /\ (n - 1) * den < num

C28_AtLeastMinAddresses ==
    /\ [](DiscoveryReturned =>
             \A c \in SupportedChains :
                ChainCounts(discovered)[c] >= minAddresses)
    /\ [][currentCount' >= currentCount]_vars

\* the addresses derived for the scan of the current batch
CurrentlyDerived ==
    IF HasSegwitAccount
    THEN AllAddresses(AddressList(currentCount, currentCount),
                      AddressList(currentCount, currentCount))
    ELSE AllAddresses(AddressList(0, 0),
                      AddressList(currentCount, currentCount))

\* the transactions with an input or output address in the derived set
TouchingDerived ==
    {tx \in transactions :
        \E e \in Range(tx.vin) \cup Range(tx.vout) :
           \E i \in 1..Len(e.addresses) :
              HasAddress(CurrentlyDerived, e.addresses[i])}

\* C29: the scan of a batch reports for each chain the highest index among
\* the history's addresses that are in the derived set, and -1 for a chain
\* with none; transactions none of whose addresses is in the derived set
\* change nothing, whether or not the indexer flags their addresses as the
\* wallet's own.
C29_MaxOverDerivedOnly ==
    (walletPc = "discovering" /\ CurrentScan.err = "none") =>
        /\ \A c \in Chains :
              CurrentScan.maxIndices[c] =
                  IF c \in SupportedChains
                  THEN MaxUsedWithin(c, currentCount) ELSE -1
        /\ findMaxUsedIndices(transactions, CurrentlyDerived) =
               findMaxUsedIndices(TouchingDerived, CurrentlyDerived)

\* the first batch of 100 saw index 37 and not the flagged index 400: with
\* gap 150 the next batch is 2 * (37 + 150 + 1) = 376, which again does not
\* hold the address of index 400
C29_Witness ==
    /\ walletPc = "discovering"
    /\ iteration = 1
    /\ gapLimit = 150
    /\ currentCount = 376
    /\ HasSegwitAccount
    /\ \E tx \in transactions \ TouchingDerived :
          \E e \in Range(tx.vout) :
             /\ e.isOwn = "true"
             /\ e.addresses = <<DerivedAddress("p2wpkh", "receive", 400)>>
    /\ CurrentScan.maxIndices.segwitReceive = 37
    /\ CurrentScan.maxIndices.legacyChange = -1

\* some selected UTXO has no derivation path, neither its own nor one in
\* the address map
SomeUtxoLacksPath == \E i \in 1..Len(utxos) : HasNoPath(utxos[i])

\* C30: within one build a signature is made only when every selected UTXO
\* has its path resolved and is an input of the PSBT, and the result of the
\* finalized transaction exists only when every input is signed; a build
\* with a UTXO that lacks a derivation path never has a signature.
C30_SignAfterAllInputs ==
    /\ [][signatures' # signatures =>
            /\ Len(psbtInputs) = Len(utxos)
            /\ \A i \in 1..Len(utxos) :
                  psbtInputs[i].path = SigningPath(utxos[i])
            /\ psbtInputs' = psbtInputs]_vars
    /\ [](Len(signatures) <= Len(psbtInputs))
    /\ [](pc = "done" =>
             /\ Len(signatures) = Len(utxos)
             /\ Len(result.inputs) = Len(utxos))
    /\ [](pc # "done" => result = NoResult)
    /\ [](SomeUtxoLacksPath => signatures = <<>>)

\* the first UTXO is an input, the second has no path: the build fails
\* without a signature
C30_Witness ==
    /\ pc = "failed"
    /\ err = "MissingDerivationPath"
    /\ Len(utxos) = 2
    /\ Len(psbtInputs) = 1
    /\ HasNoPath(utxos[2])
    /\ signatures = <<>>

\* both inputs are added, then both are signed, then the result exists
C30_WitnessSigned ==
    /\ pc = "done"
    /\ Len(utxos) = 2
    /\ Len(signatures) = 2

====
